---- MODULE Spec2Model ----
(***************************************************************************)
(* A model of the string / scratch-buffer / dynamic-array core of imgui-rs *)
(* (imgui/src/string.rs and imgui/src/internal.rs).                        *)
(*                                                                         *)
(* Bytes are the integers 0..255, chars are Unicode code points, a &str is *)
(* a sequence of chars and its bytes are the concatenated UTF-8 encodings. *)
(* A Vec<u8> is a record [mem, len]: mem is the whole allocated region     *)
(* (Len(mem) is the capacity) and len the logical length, so that stale or *)
(* uninitialised bytes past len are there to be scanned by CStr::from_ptr. *)
(***************************************************************************)
EXTENDS Integers, Sequences, FiniteSets, TLC

\* ------------------------------------------------------------------ bounds
\* longest &str argument, in chars
MaxStrLen == 2
\* largest capacity an ImString's Vec may reach (operations needing more are not taken)
MaxCap == 5
\* how many times the external writer stores through as_mut_ptr in one run
MaxWrites == 1
\* largest max_len a UiBuffer is built with
MaxThreshold == 2
\* longest buffer a bare UiBuffer::push (one not behind a refresh) is made on
MaxRawLen == 3
\* longest slice given to replace_from_slice, and largest capacity of a vector the
\* foreign side hands over
MaxVecLen == 2
\* the width of c_int in bits, scaled down from 32 so that a slice can be longer than
\* the largest c_int; usize is twice as wide, as on the 64-bit targets
IntBits == 3
UsizeBits == 2 * IntBits

\* ------------------------------------------------------------ input alphabets
\* chars given to ImString::push / write_char: nul, 'a', U+00E4, U+20AC, U+1F600
Chars == {0, 97, 228, 8364, 128512}
\* chars that make up &str arguments
StrChars == {0, 97, 228}
\* values a byte of uninitialised spare capacity may turn out to hold
UninitBytes == {0, 170}
\* what an external writer stores at consecutive offsets through as_mut_ptr:
\* runs of nul and 'z'
WriteRuns == {<<0>>, <<122>>, <<122, 0>>, <<0, 122>>, <<122, 122>>}

RECURSIVE SeqsUpTo(_, _)
SeqsUpTo(S, n) ==
    IF n = 0 THEN {<<>>}
    ELSE LET shorter == SeqsUpTo(S, n - 1)
         IN  shorter \cup {Append(q, x) : q \in {r \in shorter : Len(r) = n - 1}, x \in S}

Strs == SeqsUpTo(StrChars, MaxStrLen)
\* the &str arguments appended between external writes: nul and 'a' only
AsciiStrs == SeqsUpTo({0, 97}, MaxStrLen)
\* the texts staged in a UiBuffer: "", U+00E4 and "a\0a"
Txts == {<<>>, <<228>>, <<97, 0, 97>>}

Max(a, b) == IF a >= b THEN a ELSE b
Min(a, b) == IF a <= b THEN a ELSE b

\* ---------------------------------------------------------------- UTF-8
\* char::encode_utf8
encode_utf8(ch) ==
    IF ch < 128 THEN <<ch>>
    ELSE IF ch < 2048 THEN <<192 + (ch \div 64), 128 + (ch % 64)>>
    ELSE IF ch < 65536
         THEN <<224 + (ch \div 4096), 128 + ((ch \div 64) % 64), 128 + (ch % 64)>>
    ELSE <<240 + (ch \div 262144), 128 + ((ch \div 4096) % 64),
           128 + ((ch \div 64) % 64), 128 + (ch % 64)>>

\* str::bytes / str::as_bytes / String::into_bytes
RECURSIVE as_bytes(_)
as_bytes(str) ==
    IF str = <<>> THEN <<>> ELSE encode_utf8(Head(str)) \o as_bytes(Tail(str))

IsCont(b) == b >= 128 /\ b <= 191

\* str::from_utf8(bytes).is_ok()
RECURSIVE from_utf8_is_ok(_)
from_utf8_is_ok(b) ==
    IF b = <<>> THEN TRUE
    ELSE LET h == b[1]
             n == Len(b)
         IN  IF h < 128 THEN from_utf8_is_ok(Tail(b))
             ELSE IF h >= 194 /\ h <= 223
                  THEN n >= 2 /\ IsCont(b[2]) /\ from_utf8_is_ok(SubSeq(b, 3, n))
             ELSE IF h >= 224 /\ h <= 239
                  THEN /\ n >= 3 /\ IsCont(b[2]) /\ IsCont(b[3])
                       /\ (h = 224 => b[2] >= 160)
                       /\ (h = 237 => b[2] <= 159)
                       /\ from_utf8_is_ok(SubSeq(b, 4, n))
             ELSE IF h >= 240 /\ h <= 244
                  THEN /\ n >= 4 /\ IsCont(b[2]) /\ IsCont(b[3]) /\ IsCont(b[4])
                       /\ (h = 240 => b[2] >= 144)
                       /\ (h = 244 => b[2] <= 143)
                       /\ from_utf8_is_ok(SubSeq(b, 5, n))
             ELSE FALSE

\* ------------------------------------------------------------------ Vec<u8>
\* the initialised part of a Vec: what `s.0` compares equal to
Stored(v) == SubSeq(v.mem, 1, v.len)
Capacity(v) == Len(v.mem)

HasNul(m) == \E i \in 1..Len(m) : m[i] = 0

\* CStr::from_ptr(p).to_bytes_with_nul().len(): the scan stops at the first nul
StrlenWithNul(m) == CHOOSE i \in 1..Len(m) : m[i] = 0 /\ \A j \in 1..(i - 1) : m[j] # 0

\* all ways the bytes c+1..n of a region may read after it was regrown from c to n
\* bytes (indexed by their position in the region)
Fills(c, n) == [(c + 1)..n -> UninitBytes]
\* a fill to size a regrowth with, before its bytes are chosen
NoFill == [i \in 1..(MaxCap + 1) |-> 0]

\* RawVec growth for push / extend / reserve: amortised doubling, never below need
\* (the allocator's minimum block size is left out: it only adds spare capacity)
AmortizedCap(v, need) == Min(MaxCap, Max(2 * Capacity(v), need))

\* the Vec after its region was made newcap bytes big: realloc keeps the old region,
\* fill is what the new bytes hold
Regrown(v, newcap, fill) ==
    IF newcap <= Capacity(v) THEN v
    ELSE [v EXCEPT !.mem = [i \in 1..newcap |->
                              IF i <= Capacity(v) THEN v.mem[i] ELSE fill[i]]]

\* Vec::extend / Vec::push of the bytes bs, into a region that already holds them
WriteAtEnd(v, bs) ==
    [mem |-> [i \in 1..Capacity(v) |->
                 IF i > v.len /\ i <= v.len + Len(bs) THEN bs[i - v.len] ELSE v.mem[i]],
     len |-> v.len + Len(bs)]

\* Vec::extend(bs) (bs = <<b>> for Vec::push(b)), growing first when it must
VecExtend(v, bs, fill) ==
    WriteAtEnd(IF v.len + Len(bs) > Capacity(v)
               THEN Regrown(v, AmortizedCap(v, v.len + Len(bs)), fill)
               ELSE v, bs)

\* Vec::pop: the last byte leaves the length, not the memory
VecPop(v) == IF v.len = 0 THEN v ELSE [v EXCEPT !.len = v.len - 1]

\* Vec::clear
VecClear(v) == [v EXCEPT !.len = 0]

\* Vec::set_len
VecSetLen(v, n) == [v EXCEPT !.len = n]

\* Vec::reserve(additional)
VecReserve(v, additional, fill) ==
    IF Capacity(v) - v.len >= additional THEN v
    ELSE Regrown(v, AmortizedCap(v, v.len + additional), fill)

\* Vec::reserve_exact(additional)
VecReserveExact(v, additional, fill) ==
    IF Capacity(v) - v.len >= additional THEN v
    ELSE Regrown(v, v.len + additional, fill)

\* ------------------------------------------------------------------ state
VARIABLES
    s,        \* the ImString: its Vec<u8>, [mem, len]
    s_last,   \* the last ImString operation: [op, str, pre, ret]
    s_writes, \* stores made so far through the pointer from as_mut_ptr
    ub,       \* the UiBuffer: [buffer, cap, base, max_len] and the log of its last call
    ub_last,  \* the last UiBuffer call: [op, txt0, txt1, ret0, ret1, pre_len]
    vec,      \* the ImVector: [size, capacity, data]
    heap,     \* the foreign allocator's blocks: [live, mem]
    vec_last  \* the last ImVector operation: [op, index, ret, pre]

strVars == <<s, s_last, s_writes>>
bufVars == <<ub, ub_last>>
vecVars == <<vec, heap, vec_last>>
vars == <<s, s_last, s_writes, ub, ub_last, vec, heap, vec_last>>
\* what an ImString operation / a UiBuffer call / an ImVector operation leaves alone
notStr == <<ub, ub_last, vec, heap, vec_last>>
notBuf == <<s, s_last, s_writes, vec, heap, vec_last>>
notVec == <<s, s_last, s_writes, ub, ub_last>>

\* ---------------------------------------------------------------- ImString
\* refresh_len counting with to_bytes() instead of to_bytes_with_nul()
refresh_len_without_nul(v) == VecSetLen(v, StrlenWithNul(v.mem) - 1)

\* ImString::refresh_len: set_len(CStr::from_ptr(ptr).to_bytes_with_nul().len())
refresh_len(v) == VecSetLen(v, StrlenWithNul(v.mem))

\* ImString::from_utf8_unchecked: v.push(0)
from_utf8_unchecked(bytes, fill) ==
    VecExtend([mem |-> bytes, len |-> Len(bytes)], <<0>>, fill)

\* ImString::new without its refresh_len
ImString_new_no_refresh(str, fill) == from_utf8_unchecked(as_bytes(str), fill)

\* ImString::new: the String's bytes, a nul pushed, then refresh_len
ImString_new(str, fill) == refresh_len(from_utf8_unchecked(as_bytes(str), fill))

\* ImString::with_capacity: Vec::with_capacity(capacity + 1), then push(0)
with_capacity(capacity, fill) ==
    VecExtend([mem |-> [i \in 1..(capacity + 1) |-> fill[i]], len |-> 0], <<0>>, fill)

\* Default for ImString: vec![0]
ImString_default == [mem |-> <<0>>, len |-> 1]

\* ImString::clear
clear(v, fill) == VecExtend(VecClear(v), <<0>>, fill)

\* push_str without its refresh_len
push_str_no_refresh(v, str, fill) ==
    VecExtend(VecExtend(VecPop(v), as_bytes(str), fill), <<0>>, fill)

\* push_str that leaves the old terminator in place
push_str_no_pop(v, str, fill) ==
    refresh_len(VecExtend(VecExtend(v, as_bytes(str), fill), <<0>>, fill))

\* ImString::push_str: pop the nul, extend, push a nul, refresh_len
push_str(v, str, fill) ==
    refresh_len(VecExtend(VecExtend(VecPop(v), as_bytes(str), fill), <<0>>, fill))

\* ImString::push: push_str(ch.encode_utf8(&mut buf)), a one-char &str
push(v, ch, fill) == push_str(v, <<ch>>, fill)

\* fmt::Write::write_str: push_str, then Ok(())
write_str(v, str, fill) == [v |-> push_str(v, str, fill), ret |-> "Ok"]

\* fmt::Write::write_char: push, then Ok(())
write_char(v, ch, fill) == [v |-> push(v, ch, fill), ret |-> "Ok"]

\* deref taking the length the Vec stores
deref_stored_len(v) == SubSeq(v.mem, 1, v.len)

\* Deref for ImString: the bytes from as_ptr() up to and including the first nul
deref(v) == SubSeq(v.mem, 1, StrlenWithNul(v.mem))

\* ImStr::sanity_check's condition (a debug_assert!)
sanity_check(b) ==
    /\ from_utf8_is_ok(b)
    /\ b # <<>>
    /\ \A i \in 1..(Len(b) - 1) : b[i] # 0
    /\ b[Len(b)] = 0

\* ImStr::to_str: all but the last byte; a debug build panics when the check fails
ImStr_to_str(b) == SubSeq(b, 1, Len(b) - 1)

\* ImStr::is_empty
ImStr_is_empty(b) == Len(b) = 1

\* ImString::to_str / is_empty go through Deref
to_str(v) == ImStr_to_str(deref(v))
is_empty(v) == ImStr_is_empty(deref(v))

\* the bytes an append will need room for fit the largest modelled capacity
Fits(v, n) == v.len + n <= MaxCap

\* ---------------------------------------------------------------- UiBuffer
\* Where the allocator may put a block. A pointer is [base, off]: the block and the
\* byte offset into it; the null pointer and Vec::new()'s dangling pointer are bases
\* of their own.
Addrs == {"A", "B"}
Null == [base |-> "null", off |-> 0]
Dangling == "dangling"

\* Option<impl AsRef<str>>
None == [some |-> FALSE, txt |-> <<>>]
Some(txt) == [some |-> TRUE, txt |-> txt]
Opts == {None} \cup {Some(txt) : txt \in Txts}

\* one step of a call, for the log: refresh (a, b: length before and after),
\* realloc (a, b: capacity before and after), push (a: start offset, b: bytes
\* appended), offset (a: pos, b: buffer length)
Ev(ev, a, b) == [ev |-> ev, a |-> a, b |-> b]
Logged(u, ev, a, b) == [u EXCEPT !.log = Append(u.log, Ev(ev, a, b))]

\* UiBuffer::new
UiBuffer_new(max_len) ==
    [buffer |-> <<>>, cap |-> 0, base |-> Dangling, max_len |-> max_len, log |-> <<>>]

\* refresh_buffer that checks and never clears
refresh_buffer_never_clears(u) == Logged(u, "refresh", Len(u.buffer), Len(u.buffer))

\* refresh_buffer clearing at the threshold already
refresh_buffer_at_threshold(u) ==
    LET r == IF Len(u.buffer) >= u.max_len THEN [u EXCEPT !.buffer = <<>>] ELSE u
    IN  Logged(r, "refresh", Len(u.buffer), Len(r.buffer))

\* UiBuffer::refresh_buffer
refresh_buffer(u) ==
    LET r == IF Len(u.buffer) > u.max_len THEN [u EXCEPT !.buffer = <<>>] ELSE u
    IN  Logged(r, "refresh", Len(u.buffer), Len(r.buffer))

\* Vec::extend / Vec::push on the buffer: past the capacity the block is reallocated,
\* to wherever the allocator (addr) puts it
BufExtend(u, bs, addr) ==
    IF Len(u.buffer) + Len(bs) > u.cap
    THEN Logged([u EXCEPT !.buffer = u.buffer \o bs,
                          !.cap = Max(2 * u.cap, Len(u.buffer) + Len(bs)),
                          !.base = addr],
                "realloc", u.cap, Max(2 * u.cap, Len(u.buffer) + Len(bs)))
    ELSE [u EXCEPT !.buffer = u.buffer \o bs]

\* UiBuffer::push that leaves the terminator out
UiBuffer_push_no_nul(u, txt, addr) ==
    [ub  |-> Logged(BufExtend(u, as_bytes(txt), addr),
                    "push", Len(u.buffer), Len(as_bytes(txt))),
     ret |-> Len(u.buffer)]

\* UiBuffer::push: extend by the text's bytes, push a nul, return the old length
UiBuffer_push(u, txt, addr) ==
    [ub  |-> Logged(BufExtend(BufExtend(u, as_bytes(txt), addr), <<0>>, addr),
                    "push", Len(u.buffer), Len(as_bytes(txt)) + 1),
     ret |-> Len(u.buffer)]

\* UiBuffer::offset: buffer.as_ptr().add(pos)
offset(u, pos) == [base |-> u.base, off |-> pos]

\* scratch_txt that pushes before it refreshes
scratch_txt_push_first(u, txt, addr) ==
    LET p == UiBuffer_push(u, txt, addr)
        r == refresh_buffer(p.ub)
    IN  [ub |-> Logged(r, "offset", p.ret, Len(r.buffer)), ret |-> offset(r, p.ret)]

\* UiBuffer::scratch_txt
scratch_txt(u, txt, addr) ==
    LET r == refresh_buffer(u)
        p == UiBuffer_push(r, txt, addr)
    IN  [ub  |-> Logged(p.ub, "offset", p.ret, Len(p.ub.buffer)),
         ret |-> offset(p.ub, p.ret)]

\* scratch_txt_opt that takes an empty text for an absent one
scratch_txt_opt_empty_is_null(u, txt, addr) ==
    IF txt.some /\ txt.txt # <<>> THEN scratch_txt(u, txt.txt, addr)
    ELSE [ub |-> u, ret |-> Null]

\* UiBuffer::scratch_txt_opt
scratch_txt_opt(u, txt, addr) ==
    IF txt.some THEN scratch_txt(u, txt.txt, addr) ELSE [ub |-> u, ret |-> Null]

\* scratch_txt_two that turns the first offset into a pointer before the second push
scratch_txt_two_early_offset(u, txt_0, txt_1, addr_0, addr_1) ==
    LET r  == refresh_buffer(u)
        p0 == UiBuffer_push(r, txt_0, addr_0)
        o0 == Logged(p0.ub, "offset", p0.ret, Len(p0.ub.buffer))
        p1 == UiBuffer_push(o0, txt_1, addr_1)
    IN  [ub   |-> Logged(p1.ub, "offset", p1.ret, Len(p1.ub.buffer)),
         ret0 |-> offset(p0.ub, p0.ret),
         ret1 |-> offset(p1.ub, p1.ret)]

\* UiBuffer::scratch_txt_two: one refresh, both pushes, then both offsets
scratch_txt_two(u, txt_0, txt_1, addr_0, addr_1) ==
    LET r  == refresh_buffer(u)
        p0 == UiBuffer_push(r, txt_0, addr_0)
        p1 == UiBuffer_push(p0.ub, txt_1, addr_1)
        n  == Len(p1.ub.buffer)
    IN  [ub   |-> Logged(Logged(p1.ub, "offset", p0.ret, n), "offset", p1.ret, n),
         ret0 |-> offset(p1.ub, p0.ret),
         ret1 |-> offset(p1.ub, p1.ret)]

\* UiBuffer::scratch_txt_with_opt
scratch_txt_with_opt(u, txt_0, txt_1, addr_0, addr_1) ==
    IF txt_1.some
    THEN scratch_txt_two(u, txt_0, txt_1.txt, addr_0, addr_1)
    ELSE LET q == scratch_txt(u, txt_0, addr_0)
         IN  [ub |-> q.ub, ret0 |-> q.ret, ret1 |-> Null]

\* ---------------------------------------------------------------- ImVector
\* element values, the blocks the foreign allocator hands out, the null data pointer
Elems == {1, 2}
Blocks == {"X", "Y", "Z"}
NullData == "null"
\* what a read outside every live element finds
Wild == "wild"

Slices == SeqsUpTo(Elems, MaxVecLen)
\* slices of up to 2^(IntBits-1) elements: the longest has one element more than the
\* largest c_int
LongSlices == {[i \in 1..n |-> 1] : n \in (MaxVecLen + 1)..(2 ^ (IntBits - 1))}

\* n as i32: the low IntBits bits, read as two's complement
AsI32(n) ==
    LET m == n % (2 ^ IntBits)
    IN  IF m >= 2 ^ (IntBits - 1) THEN m - 2 ^ IntBits ELSE m

\* n as usize, of a c_int n: sign extension, read as unsigned
AsUsize(n) == n % (2 ^ UsizeBits)

\* ImVector::len / ImVector::capacity: the c_int fields as usize
ImVector_len(v) == AsUsize(v.size)
ImVector_capacity(v) == AsUsize(v.capacity)

\* *data.add(index)
ReadAt(v, h, index) ==
    IF v.data \in h.live /\ index < Len(h.mem[v.data]) THEN h.mem[v.data][index + 1]
    ELSE Wild

\* ImVector::as_slice: slice::from_raw_parts(data, size)
as_slice(v, h) == [i \in 1..AsUsize(v.size) |-> ReadAt(v, h, i - 1)]

\* get with the bound off by one
get_inclusive(v, h, index) ==
    IF index <= ImVector_len(v)
    THEN [kind |-> "some", touched |-> {index}, val |-> ReadAt(v, h, index)]
    ELSE [kind |-> "none", touched |-> {}, val |-> Wild]

\* ImVector::get: Some(&*data.add(index)) when index < len(), else None
ImVector_get(v, h, index) ==
    IF index < ImVector_len(v)
    THEN [kind |-> "some", touched |-> {index}, val |-> ReadAt(v, h, index)]
    ELSE [kind |-> "none", touched |-> {}, val |-> Wild]

\* ImVector::get_mut
ImVector_get_mut(v, h, index) ==
    IF index < ImVector_len(v)
    THEN [kind |-> "some", touched |-> {index}, val |-> ReadAt(v, h, index)]
    ELSE [kind |-> "none", touched |-> {}, val |-> Wild]

\* Index<usize>::index: the element, or a panic
ImVector_index(v, h, index) ==
    IF index < ImVector_len(v)
    THEN [kind |-> "ref", touched |-> {index}, val |-> ReadAt(v, h, index)]
    ELSE [kind |-> "panic", touched |-> {}, val |-> Wild]

\* IndexMut<usize>::index_mut
ImVector_index_mut(v, h, index) ==
    IF index < ImVector_len(v)
    THEN [kind |-> "ref", touched |-> {index}, val |-> ReadAt(v, h, index)]
    ELSE [kind |-> "panic", touched |-> {}, val |-> Wild]

\* a store of x through a reference r that get_mut / index_mut returned
StoreThrough(v, h, r, x) ==
    IF r.touched = {} \/ v.data \notin h.live THEN h
    ELSE [h EXCEPT !.mem[v.data] =
            [i \in 1..Len(h.mem[v.data]) |->
                IF i - 1 \in r.touched THEN x ELSE h.mem[v.data][i]]]

\* the allocator's calls are logged in heap.log; heap.faults collects the frees of
\* something that is no live block
Called(h, ev, ptr, n) == Append(h.log, [ev |-> ev, ptr |-> ptr, n |-> n])

\* sys::igMemFree: nothing for a null pointer, else the block is gone
igMemFree(h, ptr) ==
    IF ptr = NullData THEN [h EXCEPT !.log = Called(h, "free", ptr, 0)]
    ELSE IF ptr \notin h.live
    THEN [h EXCEPT !.log = Called(h, "free", ptr, 0),
                   !.faults = h.faults \cup {"free of no live block"}]
    ELSE [h EXCEPT !.live = h.live \ {ptr}, !.mem[ptr] = <<>>,
                   !.log = Called(h, "free", ptr, 0)]

\* std::mem::size_of_val(data), in units of size_of::<T>()
size_of_val(data) == Len(data)

\* sys::igMemAlloc: the block the allocator picks, of the size asked for, not yet
\* written
igMemAlloc(h, block, size) ==
    [h EXCEPT !.live = h.live \cup {block}, !.mem[block] = [i \in 1..size |-> Wild],
              !.log = Called(h, "alloc", block, size)]

\* ptr.copy_from_nonoverlapping(src, count): the first count elements of src, as far
\* as the block reaches
copy_from_nonoverlapping(h, ptr, src, count) ==
    [h EXCEPT !.mem[ptr] =
        [i \in 1..Len(h.mem[ptr]) |-> IF i <= count THEN src[i] ELSE h.mem[ptr][i]]]

\* replace_from_slice keeping the old data pointer
replace_from_slice_keeps_data(v, h, data, block) ==
    LET freed  == igMemFree(h, v.data)
        alloc  == igMemAlloc(freed, block, size_of_val(data))
        copied == copy_from_nonoverlapping(alloc, block, data, Len(data))
    IN  [vec  |-> [size |-> AsI32(Len(data)), capacity |-> AsI32(Len(data)),
                   data |-> v.data],
         heap |-> copied]

\* ImVector::replace_from_slice: free the old block, allocate one for data, copy, set
\* size, capacity and data
replace_from_slice(v, h, data, block) ==
    LET freed  == igMemFree(h, v.data)
        alloc  == igMemAlloc(freed, block, size_of_val(data))
        copied == copy_from_nonoverlapping(alloc, block, data, Len(data))
    IN  [vec  |-> [size |-> AsI32(Len(data)), capacity |-> AsI32(Len(data)),
                   data |-> block],
         heap |-> copied]

NoHeap == [live |-> {}, mem |-> [b \in Blocks |-> <<>>], log |-> <<>>, faults |-> {}]
\* the heap as a call finds it: the log starts empty
HeapAtCall(h) == [h EXCEPT !.log = <<>>]
\* the last call: pre is the slice as an access found it, or the view as
\* replace_from_slice found it
VecLast(op, index, ret, pre, data) ==
    [op |-> op, index |-> index, ret |-> ret, pre |-> pre, data |-> data]
NoRet == [kind |-> "none", touched |-> {}, val |-> Wild]

\* the buffer as a call finds it: the log starts empty
AtCall(u) == [u EXCEPT !.log = <<>>]

BufLast(op, txt0, txt1, ret0, ret1, pre_len) ==
    [op |-> op, txt0 |-> txt0, txt1 |-> txt1, ret0 |-> ret0, ret1 |-> ret1,
     pre_len |-> pre_len]

\* ------------------------------------------------------- ImString actions
Last(op, str, pre, ret) == [op |-> op, str |-> str, pre |-> pre, ret |-> ret]

InitStr ==
    /\ s_writes = 0
    /\ ub = UiBuffer_new(0)
    /\ ub_last = BufLast("new", None, None, Null, Null, 0)
    /\ vec = [size |-> 0, capacity |-> 0, data |-> NullData]
    /\ heap = NoHeap
    /\ vec_last = VecLast("foreign", 0, NoRet, <<>>, <<>>)
    /\ \/ \E str \in {x \in Strs : Len(as_bytes(x)) + 1 <= MaxCap} :
             \E fill \in Fills(Len(as_bytes(str)),
                                Capacity(from_utf8_unchecked(as_bytes(str), NoFill))) :
               /\ s = ImString_new(str, fill)
               /\ s_last = Last("new", str, <<>>, "none")
       \/ \E capacity \in 0..(MaxCap - 1) : \E fill \in Fills(0, capacity + 1) :
             /\ s = with_capacity(capacity, fill)
             /\ s_last = Last("with_capacity", <<>>, <<>>, "none")
       \/ /\ s = ImString_default
          /\ s_last = Last("default", <<>>, <<>>, "none")

Clear ==
    /\ s' = clear(s, NoFill)
    /\ s_last' = Last("clear", <<>>, Stored(s), "none")
    /\ UNCHANGED <<s_writes, notStr>>

Push(C) ==
    \E ch \in C :
        /\ Fits(s, Len(encode_utf8(ch)))
        /\ \E fill \in Fills(Capacity(s), Capacity(push(s, ch, NoFill))) :
              s' = push(s, ch, fill)
        /\ s_last' = Last("push", <<ch>>, Stored(s), "none")
        /\ UNCHANGED <<s_writes, notStr>>

PushStr(S) ==
    \E str \in S :
        /\ Fits(s, Len(as_bytes(str)))
        /\ \E fill \in Fills(Capacity(s), Capacity(push_str(s, str, NoFill))) :
              s' = push_str(s, str, fill)
        /\ s_last' = Last("push_str", str, Stored(s), "none")
        /\ UNCHANGED <<s_writes, notStr>>

WriteStr ==
    \E str \in Strs :
        /\ Fits(s, Len(as_bytes(str)))
        /\ \E fill \in Fills(Capacity(s), Capacity(write_str(s, str, NoFill).v)) :
              /\ s' = write_str(s, str, fill).v
              /\ s_last' = Last("write_str", str, Stored(s), write_str(s, str, fill).ret)
        /\ UNCHANGED <<s_writes, notStr>>

WriteChar(C) ==
    \E ch \in C :
        /\ Fits(s, Len(encode_utf8(ch)))
        /\ \E fill \in Fills(Capacity(s), Capacity(write_char(s, ch, NoFill).v)) :
              /\ s' = write_char(s, ch, fill).v
              /\ s_last' = Last("write_char", <<ch>>, Stored(s), write_char(s, ch, fill).ret)
        /\ UNCHANGED <<s_writes, notStr>>

Reserve ==
    \E additional \in 0..MaxCap :
        /\ Fits(s, additional)
        /\ \E fill \in Fills(Capacity(s), Capacity(VecReserve(s, additional, NoFill))) :
              s' = VecReserve(s, additional, fill)
        /\ s_last' = Last("reserve", <<>>, Stored(s), "none")
        /\ UNCHANGED <<s_writes, notStr>>

ReserveExact ==
    \E additional \in 0..MaxCap :
        /\ Fits(s, additional)
        /\ \E fill \in Fills(Capacity(s), Capacity(VecReserveExact(s, additional, NoFill))) :
              s' = VecReserveExact(s, additional, fill)
        /\ s_last' = Last("reserve_exact", <<>>, Stored(s), "none")
        /\ UNCHANGED <<s_writes, notStr>>

\* stores through the pointer from as_mut_ptr: the bytes run written from offset off,
\* inside the allocated region, which still holds a nul afterwards (the caller's
\* obligation)
ExternalWrite ==
    \E off \in 0..(Capacity(s) - 1) : \E run \in WriteRuns :
        LET m == [i \in 1..Capacity(s) |->
                    IF i > off /\ i <= off + Len(run) THEN run[i - off] ELSE s.mem[i]]
        IN  /\ s_writes < MaxWrites
            /\ off + Len(run) <= Capacity(s)
            /\ HasNul(m)
            /\ s_writes' = s_writes + 1
            /\ s' = [s EXCEPT !.mem = m]
            /\ s_last' = Last("write", <<>>, <<>>, "none")
            /\ UNCHANGED notStr

\* refresh_len, called as its contract asks: with a nul inside the allocated region
RefreshLen ==
    /\ HasNul(s.mem)
    /\ s' = refresh_len(s)
    /\ s_last' = Last("refresh_len", <<>>, s.mem, "none")
    /\ UNCHANGED <<s_writes, notStr>>

NextSafe ==
    Clear \/ Push(Chars) \/ PushStr(Strs) \/ WriteStr \/ WriteChar(Chars) \/ Reserve \/ ReserveExact

NextStr ==
    \/ Clear \/ PushStr(AsciiStrs) \/ ReserveExact
    \/ ExternalWrite \/ RefreshLen


\* ------------------------------------------------------- UiBuffer actions
InitBuf ==
    /\ \E max_len \in 0..MaxThreshold : ub = UiBuffer_new(max_len)
    /\ ub_last = BufLast("new", None, None, Null, Null, 0)
    /\ s = ImString_default
    /\ s_last = Last("default", <<>>, <<>>, "none")
    /\ s_writes = 0
    /\ vec = [size |-> 0, capacity |-> 0, data |-> NullData]
    /\ heap = NoHeap
    /\ vec_last = VecLast("foreign", 0, NoRet, <<>>, <<>>)

\* where a push of txt may leave the buffer's block: anywhere when the block must
\* grow, where it is when it need not
Placements(u, txt) ==
    IF Len(u.buffer) + Len(as_bytes(txt)) + 1 > u.cap THEN Addrs ELSE {u.base}

ScratchTxt ==
    \E txt \in Txts : \E addr \in Placements(refresh_buffer(ub), txt) :
        LET q == scratch_txt(AtCall(ub), txt, addr)
        IN  /\ ub' = q.ub
            /\ ub_last' = BufLast("scratch_txt", Some(txt), None, q.ret, Null, Len(ub.buffer))
            /\ UNCHANGED notBuf

ScratchTxtOpt ==
    \E txt \in Opts : \E addr \in Placements(refresh_buffer(ub), txt.txt) :
        LET q == scratch_txt_opt(AtCall(ub), txt, addr)
        IN  /\ ub' = q.ub
            /\ ub_last' = BufLast("scratch_txt_opt", txt, None, q.ret, Null, Len(ub.buffer))
            /\ UNCHANGED notBuf

ScratchTxtTwo ==
    \E txt_0 \in Txts : \E txt_1 \in Txts :
      \E addr_0 \in Placements(refresh_buffer(ub), txt_0) :
        \E addr_1 \in Placements(UiBuffer_push(refresh_buffer(ub), txt_0, addr_0).ub, txt_1) :
          LET q == scratch_txt_two(AtCall(ub), txt_0, txt_1, addr_0, addr_1)
          IN  /\ ub' = q.ub
              /\ ub_last' = BufLast("scratch_txt_two", Some(txt_0), Some(txt_1),
                                    q.ret0, q.ret1, Len(ub.buffer))
              /\ UNCHANGED notBuf

ScratchTxtWithOpt ==
    \E txt_0 \in Txts : \E txt_1 \in Opts :
      \E addr_0 \in Placements(refresh_buffer(ub), txt_0) :
        \E addr_1 \in Placements(UiBuffer_push(refresh_buffer(ub), txt_0, addr_0).ub,
                                 txt_1.txt) :
          LET q == scratch_txt_with_opt(AtCall(ub), txt_0, txt_1, addr_0, addr_1)
          IN  /\ ub' = q.ub
              /\ ub_last' = BufLast("scratch_txt_with_opt", Some(txt_0), txt_1,
                                    q.ret0, q.ret1, Len(ub.buffer))
              /\ UNCHANGED notBuf

\* a caller's own `offset(push(txt))`, with no refresh before it
PushOffset ==
    \E txt \in Txts : \E addr \in Placements(ub, txt) :
        LET q == UiBuffer_push(AtCall(ub), txt, addr)
        IN  /\ Len(ub.buffer) <= MaxRawLen
            /\ ub' = Logged(q.ub, "offset", q.ret, Len(q.ub.buffer))
            /\ ub_last' = BufLast("push_offset", Some(txt), None, offset(q.ub, q.ret), Null,
                                  Len(ub.buffer))
            /\ UNCHANGED notBuf

NextBuf == ScratchTxt \/ ScratchTxtOpt \/ ScratchTxtTwo \/ ScratchTxtWithOpt

NextBufRaw == NextBuf \/ PushOffset

\* ------------------------------------------------------- ImVector actions
\* a vector as the foreign side hands it over: size <= capacity, no block when the
\* capacity is 0, else a block of capacity elements
InitVec ==
    /\ \E capacity \in 0..MaxVecLen : \E size \in 0..capacity :
         \E elems \in [1..capacity -> Elems] :
           IF capacity = 0
           THEN /\ vec = [size |-> 0, capacity |-> 0, data |-> NullData]
                /\ heap = NoHeap
           ELSE /\ vec = [size |-> size, capacity |-> capacity, data |-> "X"]
                /\ heap = HeapAtCall(copy_from_nonoverlapping(
                              igMemAlloc(NoHeap, "X", capacity), "X", elems, capacity))
    /\ vec_last = VecLast("foreign", 0, NoRet, <<>>, <<>>)
    /\ s = ImString_default
    /\ s_last = Last("default", <<>>, <<>>, "none")
    /\ s_writes = 0
    /\ ub = UiBuffer_new(0)
    /\ ub_last = BufLast("new", None, None, Null, Null, 0)

Indices == 0..(MaxVecLen + 1)

Get ==
    \E index \in Indices :
        /\ vec_last' = VecLast("get", index, ImVector_get(vec, heap, index),
                               as_slice(vec, heap), <<>>)
        /\ UNCHANGED <<vec, heap, notVec>>

\* if let Some(e) = v.get_mut(index) { *e = x }
GetMut ==
    \E index \in Indices : \E x \in Elems :
        LET r == ImVector_get_mut(vec, heap, index)
        IN  /\ heap' = StoreThrough(vec, heap, r, x)
            /\ vec_last' = VecLast("get_mut", index, [r EXCEPT !.val = x],
                                   as_slice(vec, heap), <<>>)
            /\ UNCHANGED <<vec, notVec>>

Index ==
    \E index \in Indices :
        /\ vec_last' = VecLast("index", index, ImVector_index(vec, heap, index),
                               as_slice(vec, heap), <<>>)
        /\ UNCHANGED <<vec, heap, notVec>>

\* v[index] = x
IndexMut ==
    \E index \in Indices : \E x \in Elems :
        LET r == ImVector_index_mut(vec, heap, index)
        IN  /\ heap' = StoreThrough(vec, heap, r, x)
            /\ vec_last' = VecLast("index_mut", index, [r EXCEPT !.val = x],
                                   as_slice(vec, heap), <<>>)
            /\ UNCHANGED <<vec, notVec>>

\* v.replace_from_slice(data), data among S; the allocator picks any block that is
\* not live once the old one is freed
ReplaceFromSlice(S) ==
    \E data \in S : \E block \in Blocks \ igMemFree(heap, vec.data).live :
        LET q == replace_from_slice(vec, HeapAtCall(heap), data, block)
        IN  /\ vec' = q.vec
            /\ heap' = q.heap
            /\ vec_last' = VecLast("replace_from_slice", 0, NoRet, vec, data)
            /\ UNCHANGED notVec

NextVec == Get \/ GetMut \/ Index \/ IndexMut \/ ReplaceFromSlice(Slices)

\* the same with slices of any length, read only (a store through a reference past the
\* block is left out)
NextVecLong == Get \/ Index \/ ReplaceFromSlice(Slices \cup LongSlices)

\* ----------------------------------------------------------- specifications
\* the ImString used through its safe methods only
SpecSafe == InitStr /\ [][NextSafe]_vars

\* the ImString with writes through as_mut_ptr and refresh_len
SpecStr == InitStr /\ [][NextStr]_vars

\* the UiBuffer used through its staging calls
SpecBuf == InitBuf /\ [][NextBuf]_vars

\* the UiBuffer with the caller's own push / offset beside the staging calls
SpecBufRaw == InitBuf /\ [][NextBufRaw]_vars

\* the ImVector over a block of the foreign allocator
SpecVec == InitVec /\ [][NextVec]_vars

\* the ImVector given slices longer than the largest c_int too
SpecVecLong == InitVec /\ [][NextVecLong]_vars

\* ------------------------------------------------------- ImString properties
\* the bytes of b before its first nul (all of b when it has none)
RECURSIVE UpToNul(_)
UpToNul(b) ==
    IF b = <<>> \/ Head(b) = 0 THEN <<>> ELSE <<Head(b)>> \o UpToNul(Tail(b))

NulFree(b) == \A i \in 1..Len(b) : b[i] # 0

\* b is nul-free content followed by exactly one nul
NulOnlyLast(b) == b # <<>> /\ b[Len(b)] = 0 /\ NulFree(SubSeq(b, 1, Len(b) - 1))

\* the content of stored bytes that end in their terminator
Content(b) == SubSeq(b, 1, Len(b) - 1)

\* C1: from new / with_capacity / default, after any sequence of clear, push and
\* push_str (also of chars and strings that hold a nul), the stored bytes end in one
\* 0x00 byte and hold no 0x00 byte before it.
C1_StoredEndsInOneNul == NulOnlyLast(Stored(s))

\* C1's case: a string with a nul in the middle was appended to non-empty content
C1_Witness ==
    /\ s_last.op = "push_str"
    /\ Len(s_last.str) = 2 /\ s_last.str[1] = 0 /\ s_last.str[2] # 0
    /\ Len(s_last.pre) > 1

\* C2: ImString::new(str) stores the bytes of str before its first nul, then one nul;
\* to_str() gives that prefix (passing the debug sanity check), and is_empty() holds
\* exactly when the prefix is empty.
C2_NewStoresPrefix ==
    s_last.op = "new" =>
        LET prefix == UpToNul(as_bytes(s_last.str))
        IN  /\ Stored(s) = prefix \o <<0>>
            /\ sanity_check(deref(s))
            /\ to_str(s) = prefix
            /\ (NulFree(as_bytes(s_last.str)) => to_str(s) = as_bytes(s_last.str))
            /\ (is_empty(s) <=> prefix = <<>>)

\* C2's case: new() of a string with a nul after its first char
C2_Witness ==
    /\ s_last.op = "new"
    /\ Len(s_last.str) = 2 /\ s_last.str[1] # 0 /\ s_last.str[2] = 0
    /\ ~is_empty(s)

\* C3: after stores through as_mut_ptr that leave a nul in the allocated region,
\* refresh_len makes the stored bytes the bytes up to and including the first nul of
\* the region, untouched, and drops what lies after it.
C3_RefreshLenToFirstNul ==
    s_last.op = "refresh_len" =>
        /\ s.mem = s_last.pre
        /\ s.len = Len(UpToNul(s_last.pre)) + 1
        /\ Stored(s) = UpToNul(s_last.pre) \o <<0>>

\* C3's case: 'z' and a nul were written into the content and refresh_len cut a
\* non-nul tail off
C3_Witness ==
    /\ s_last.op = "refresh_len"
    /\ s_writes > 0
    /\ s.len > 2 /\ s.mem[s.len - 1] = 122
    /\ \E i \in (s.len + 1)..Len(s.mem) : s.mem[i] \notin {0, 170}

\* C4 as stated: push_str(str) with a nul-free str leaves the content c \o str, push(ch)
\* leaves it c \o encode_utf8(ch) for every ch, the fmt::Write entry points alike.
C4_AppendsAnyChar ==
    /\ (s_last.op \in {"push_str", "write_str"} /\ NulOnlyLast(s_last.pre)
          /\ NulFree(as_bytes(s_last.str)))
        => Content(Stored(s)) = Content(s_last.pre) \o as_bytes(s_last.str)
    /\ (s_last.op \in {"push", "write_char"} /\ NulOnlyLast(s_last.pre))
        => Content(Stored(s)) = Content(s_last.pre) \o encode_utf8(s_last.str[1])
    /\ s_last.op \in {"write_str", "write_char"} => s_last.ret = "Ok"

\* C4, amended: push_str(str) with a nul-free str leaves the content c \o str; push(ch)
\* leaves it c \o encode_utf8(ch) when ch is not U+0000 and leaves it c when it is; the
\* fmt::Write entry points do the same and return Ok.
C4_AppendsNulFree ==
    /\ (s_last.op \in {"push_str", "write_str"} /\ NulOnlyLast(s_last.pre)
          /\ NulFree(as_bytes(s_last.str)))
        => /\ Content(Stored(s)) = Content(s_last.pre) \o as_bytes(s_last.str)
           /\ to_str(s) = Content(Stored(s))
    /\ (s_last.op \in {"push", "write_char"} /\ NulOnlyLast(s_last.pre))
        => /\ Content(Stored(s)) =
                 Content(s_last.pre)
                     \o (IF s_last.str[1] = 0 THEN <<>> ELSE encode_utf8(s_last.str[1]))
           /\ to_str(s) = Content(Stored(s))
    /\ s_last.op \in {"write_str", "write_char"} => s_last.ret = "Ok"

\* C4's case: a two-byte char was appended to non-empty content through write_char
C4_Witness ==
    /\ s_last.op = "write_char"
    /\ s_last.str = <<228>>
    /\ Len(s_last.pre) > 1
    /\ s_last.ret = "Ok"

\* ------------------------------------------------------- UiBuffer properties
StagingOps == {"scratch_txt", "scratch_txt_opt", "scratch_txt_two", "scratch_txt_with_opt"}

\* the refresh / push / offset steps of the last call, in order
Steps == SelectSeq(ub.log, LAMBDA e : e.ev # "realloc")
StepKinds == [i \in 1..Len(Steps) |-> Steps[i].ev]

\* p points into the buffer's block as it is now
PointsIn(p) == p.base = ub.base /\ p.base \in Addrs /\ p.off < Len(ub.buffer)

\* the n bytes at p
RegionAt(p, n) == SubSeq(ub.buffer, p.off + 1, p.off + n)

\* what a reader of the C string at p gets: the bytes up to the first nul
CStrAt(p) == UpToNul(SubSeq(ub.buffer, p.off + 1, Len(ub.buffer)))

\* the last call was handed a second text
TwoTexts ==
    \/ ub_last.op = "scratch_txt_two"
    \/ ub_last.op = "scratch_txt_with_opt" /\ ub_last.txt1.some

\* C5: a staging call (scratch_txt, scratch_txt_two, scratch_txt_with_opt) that finds
\* the buffer longer than max_len clears it before appending, so the length after the
\* refresh is 0 and the new text starts at offset 0; one that finds it no longer than
\* max_len clears nothing and the new text starts at the old length.
C5_RefreshClearsPastThreshold ==
    ub_last.op \in {"scratch_txt", "scratch_txt_two", "scratch_txt_with_opt"} =>
        LET before == ub_last.pre_len
        IN  /\ Len(Steps) >= 2
            /\ Steps[1] = Ev("refresh", before, IF before > ub.max_len THEN 0 ELSE before)
            /\ Steps[2].ev = "push"
            /\ before > ub.max_len =>
                 /\ Steps[2].a = 0
                 /\ ub_last.ret0.off = 0
                 /\ RegionAt(ub_last.ret0, Len(as_bytes(ub_last.txt0.txt)))
                      = as_bytes(ub_last.txt0.txt)
            /\ before <= ub.max_len =>
                 /\ Steps[2].a = before
                 /\ ub_last.ret0.off = before

\* C5's case: a buffer past a non-zero threshold was cleared and two texts staged
C5_Witness ==
    /\ ub_last.op = "scratch_txt_two"
    /\ ub.max_len > 0
    /\ ub_last.pre_len > ub.max_len
    /\ ub_last.ret0.off = 0
    /\ ub_last.txt0.txt # <<>>

\* C6: with two texts, scratch_txt_two / scratch_txt_with_opt refresh once, push both
\* with nothing in between, and only then take both offsets: both pointers are into
\* the buffer's block as it is on return, the second starts len(a)+1 bytes after the
\* first, and the first region still holds a.
C6_TwoTextsOneBufferState ==
    TwoTexts =>
        LET a == as_bytes(ub_last.txt0.txt)
        IN  /\ StepKinds = <<"refresh", "push", "push", "offset", "offset">>
            /\ Steps[4].b = Len(ub.buffer) /\ Steps[5].b = Len(ub.buffer)
            /\ PointsIn(ub_last.ret0) /\ PointsIn(ub_last.ret1)
            /\ ub_last.ret1.off = ub_last.ret0.off + Len(a) + 1
            /\ RegionAt(ub_last.ret0, Len(a) + 1) = a \o <<0>>

\* C6's case: the second push moved the buffer's block after the first was staged
C6_Witness ==
    /\ TwoTexts
    /\ \E i \in 1..Len(ub.log) : \E j \in 1..Len(ub.log) :
         /\ i < j
         /\ ub.log[i].ev = "push"
         /\ ub.log[j].ev = "realloc"
    /\ ub_last.txt0.txt # <<>>

\* the pointers the last call returned, each with the text it was staged for
Returned ==
    (IF ub_last.txt0.some /\ ub_last.op # "new"
     THEN {[p |-> ub_last.ret0, txt |-> ub_last.txt0.txt]} ELSE {})
    \cup (IF ub_last.txt1.some
          THEN {[p |-> ub_last.ret1, txt |-> ub_last.txt1.txt]} ELSE {})

\* C7 as stated: scanning from each returned pointer to the first nul gives exactly
\* the text it was staged for.
C7_ScanYieldsText ==
    \A r \in Returned : PointsIn(r.p) /\ CStrAt(r.p) = as_bytes(r.txt)

\* C7, amended: each returned pointer is into the buffer, the len(t)+1 bytes there are
\* the bytes of t and one nul, and scanning to the first nul gives t up to its first
\* nul, which is t when t has no nul.
C7_RegionHoldsTextAndNul ==
    \A r \in Returned :
        /\ PointsIn(r.p)
        /\ RegionAt(r.p, Len(as_bytes(r.txt)) + 1) = as_bytes(r.txt) \o <<0>>
        /\ CStrAt(r.p) = UpToNul(as_bytes(r.txt))
        /\ NulFree(as_bytes(r.txt)) => CStrAt(r.p) = as_bytes(r.txt)

\* C7's case: a caller's offset(push(t)) of a two-byte text behind earlier content
C7_Witness ==
    /\ ub_last.op = "push_offset"
    /\ ub_last.txt0.txt = <<228>>
    /\ ub_last.ret0.off > 0

\* C8: an absent text gives the null pointer (scratch_txt_opt(None), the second
\* pointer of scratch_txt_with_opt(a, None)); a present one, the empty text too, gives
\* a non-null pointer at the staged text and its nul.
C8_NullIffAbsent ==
    /\ ub_last.op = "scratch_txt_opt" =>
         IF ub_last.txt0.some
         THEN /\ ub_last.ret0 # Null /\ PointsIn(ub_last.ret0)
              /\ RegionAt(ub_last.ret0, Len(as_bytes(ub_last.txt0.txt)) + 1)
                   = as_bytes(ub_last.txt0.txt) \o <<0>>
         ELSE ub_last.ret0 = Null
    /\ ub_last.op = "scratch_txt_with_opt" =>
         IF ub_last.txt1.some
         THEN /\ ub_last.ret1 # Null /\ PointsIn(ub_last.ret1)
              /\ RegionAt(ub_last.ret1, Len(as_bytes(ub_last.txt1.txt)) + 1)
                   = as_bytes(ub_last.txt1.txt) \o <<0>>
         ELSE ub_last.ret1 = Null

\* C8's case: a present but empty text was staged behind earlier content
C8_Witness ==
    /\ ub_last.op = "scratch_txt_opt"
    /\ ub_last.txt0 = Some(<<>>)
    /\ ub_last.ret0 # Null
    /\ ub_last.ret0.off > 0

\* the last call ran the refresh check first, on the buffer as it found it, and
\* appended only after it
CheckedFirst ==
    /\ Len(ub.log) >= 1
    /\ ub.log[1].ev = "refresh"
    /\ ub.log[1].a = ub_last.pre_len
    /\ ub.log[1].b = (IF ub_last.pre_len > ub.max_len THEN 0 ELSE ub_last.pre_len)

\* C9 as stated: every call of scratch_txt, scratch_txt_opt, scratch_txt_two and
\* scratch_txt_with_opt, whatever its arguments, runs the refresh check before any
\* byte is appended.
C9_EveryCallChecks == ub_last.op \in StagingOps => CheckedFirst

\* C9, amended: every staging call that is handed a text runs the refresh check
\* before any byte is appended; scratch_txt_opt(None) runs no check and leaves the
\* buffer as it is.
C9_EveryStagingChecks ==
    ub_last.op \in StagingOps =>
        IF ub_last.op = "scratch_txt_opt" /\ ~ub_last.txt0.some
        THEN ub.log = <<>> /\ Len(ub.buffer) = ub_last.pre_len
        ELSE CheckedFirst

\* C9's case: scratch_txt_opt with a text found the buffer past the threshold
C9_Witness ==
    /\ ub_last.op = "scratch_txt_opt"
    /\ ub_last.txt0.some
    /\ ub_last.pre_len > ub.max_len
    /\ ub.max_len > 0

\* ------------------------------------------------------- ImVector properties
\* C10: with n the vector's length, get / get_mut / the index operators at index < n
\* give element index; at index >= n get and get_mut give None and the index
\* operators panic; no access reads or writes a position >= n.
C10_AccessWithinLen ==
    vec_last.op \in {"get", "get_mut", "index", "index_mut"} =>
        LET n == ImVector_len(vec)
            i == vec_last.index
            r == vec_last.ret
            now == as_slice(vec, heap)
        IN  /\ Len(vec_last.pre) = n
            /\ \A pos \in r.touched : pos < n
            /\ i < n =>
                 /\ r.kind = (IF vec_last.op \in {"get", "get_mut"} THEN "some" ELSE "ref")
                 /\ r.touched = {i}
                 /\ now[i + 1] = r.val
                 /\ vec_last.op \in {"get", "index"} => r.val = vec_last.pre[i + 1]
                 /\ \A k \in 1..n : k # i + 1 => now[k] = vec_last.pre[k]
            /\ i >= n =>
                 /\ r.kind = (IF vec_last.op \in {"get", "get_mut"} THEN "none" ELSE "panic")
                 /\ r.touched = {}
                 /\ now = vec_last.pre

\* C10's case: get at index = n of a non-empty vector whose block has room past n
C10_Witness ==
    /\ vec_last.op = "get"
    /\ vec_last.index = ImVector_len(vec)
    /\ vec.size > 0
    /\ vec.capacity > vec.size
    /\ vec_last.ret.kind = "none"

\* C11: for every slice data, of any length, after replace_from_slice(data) len() and
\* capacity() both equal the length of data and as_slice() equals data element by
\* element.
C11_ReplaceExact ==
    vec_last.op = "replace_from_slice" =>
        /\ ImVector_len(vec) = Len(vec_last.data)
        /\ ImVector_capacity(vec) = Len(vec_last.data)
        /\ as_slice(vec, heap) = vec_last.data

\* C12: nothing is ever freed that is no live block, and the view's data pointer is
\* null or the only live block; each replace_from_slice(data) makes two allocator
\* calls, one free of the block the view pointed at and one allocation of exactly
\* the size of data, after which the data pointer is the new block, the only live
\* one, that block holds as many elements as data, and size <= capacity.
C12_FreeOnceAllocOnce ==
    /\ heap.faults = {}
    /\ heap.live \subseteq {vec.data}
    /\ vec.data = NullData \/ vec.data \in heap.live
    /\ vec_last.op = "replace_from_slice" =>
          /\ Len(heap.log) = 2
          /\ heap.log[1] = [ev |-> "free", ptr |-> vec_last.pre.data, n |-> 0]
          /\ heap.log[2] = [ev |-> "alloc", ptr |-> vec.data,
                            n |-> Len(vec_last.data)]
          /\ heap.live = {vec.data}
          /\ Len(heap.mem[vec.data]) = Len(vec_last.data)
          /\ vec.size <= vec.capacity

\* C12's case: a replace_from_slice on a view that pointed at a live block, after
\* which the allocator gave a block at another address
C12_Witness ==
    /\ vec_last.op = "replace_from_slice"
    /\ vec_last.pre.data # NullData
    /\ vec_last.pre.size > 0
    /\ vec.data # vec_last.pre.data
    /\ Len(vec_last.data) > 0
    /\ heap.live = {vec.data}

\* ------------------------------------------------- ImString view properties
\* C13: the borrowed view of an ImString is the region's bytes up to and including
\* its first nul, whatever length the Vec stores: is_empty() is true exactly when
\* the first byte is nul, and to_str() (where the view is valid UTF-8, which a debug
\* build asserts) is the bytes before the first nul; so it is right after a store
\* through as_mut_ptr, before refresh_len.
C13_ViewScansToFirstNul ==
    /\ deref(s) = UpToNul(s.mem) \o <<0>>
    /\ is_empty(s) <=> s.mem[1] = 0
    /\ from_utf8_is_ok(deref(s)) => to_str(s) = UpToNul(s.mem)

\* C13's case: 'z' and a nul were stored over the content, refresh_len has not run,
\* the stored bytes still reach past the new nul into a stale tail, and to_str() ends
\* at the 'z'
C13_Witness ==
    /\ s_last.op = "write"
    /\ s.len > Len(deref(s)) + 1
    /\ \E i \in (Len(deref(s)) + 1)..(s.len - 1) : s.mem[i] # 0
    /\ to_str(s) # <<>>
    /\ to_str(s)[Len(to_str(s))] = 122
    /\ ~is_empty(s)

\* ------------------------------------------------ UiBuffer length properties
\* the bytes the last call appended: each text's bytes and one nul
Appended ==
    (IF ub_last.txt0.some THEN Len(as_bytes(ub_last.txt0.txt)) + 1 ELSE 0)
    + (IF ub_last.txt1.some THEN Len(as_bytes(ub_last.txt1.txt)) + 1 ELSE 0)

\* every refresh of the last call left at most max_len bytes, and left a buffer of
\* exactly max_len bytes as it was
RefreshesBounded ==
    \A i \in 1..Len(ub.log) :
        ub.log[i].ev = "refresh" =>
            /\ ub.log[i].b <= ub.max_len
            /\ ub.log[i].a = ub.max_len => ub.log[i].b = ub.max_len

\* C14 as stated: after every call of scratch_txt, scratch_txt_opt, scratch_txt_two
\* and scratch_txt_with_opt the buffer is at most max_len bytes plus the bytes that
\* call appended; after each refresh it is at most max_len bytes, and a buffer of
\* exactly max_len bytes is not cleared.
C14_EveryCallBounded ==
    ub_last.op \in StagingOps =>
        /\ RefreshesBounded
        /\ Len(ub.buffer) <= ub.max_len + Appended

\* C14, amended: the same for every staging call that is handed a text, whose length
\* on return is the length after its refresh plus the bytes it appended;
\* scratch_txt_opt(None) leaves the buffer as long as it found it.
C14_StagedLengthBounded ==
    ub_last.op \in StagingOps =>
        IF ub_last.op = "scratch_txt_opt" /\ ~ub_last.txt0.some
        THEN Len(ub.buffer) = ub_last.pre_len
        ELSE /\ RefreshesBounded
             /\ \E i \in 1..Len(ub.log) : ub.log[i].ev = "refresh"
             /\ Len(ub.buffer) <= ub.max_len + Appended
             /\ Len(ub.buffer) =
                  (IF ub_last.pre_len > ub.max_len THEN 0 ELSE ub_last.pre_len) + Appended

\* C14's case: a staging call found the buffer at exactly max_len > 0 bytes, kept
\* them, and left the buffer longer than max_len
C14_Witness ==
    /\ ub_last.op \in {"scratch_txt", "scratch_txt_two"}
    /\ ub.max_len > 0
    /\ ub_last.pre_len = ub.max_len
    /\ ub_last.ret0.off = ub.max_len
    /\ Len(ub.buffer) > ub.max_len

====
